---- MODULE Spec2Model ----
(***************************************************************************)
(* Pullback-buy evaluation pipeline of Python-Stock-In-TW.                 *)
(*                                                                         *)
(*   PullBackIn.py : fetch_data -> prepare_df -> history check ->          *)
(*                   decision_pullback_balanced                            *)
(*   main.py       : fetch_data -> prepare_df -> history check ->          *)
(*                   decision_logic                                        *)
(*                                                                         *)
(* Numbers.  Every float of the program is a fixed-point integer counting  *)
(* 1/FIX units (100.0 is 100 * FIX); a division rounds down.  numpy.nan is *)
(* the value NaN, which no arithmetic produces; an operation that can meet *)
(* it tests for it first, and a comparison with it is false, as in numpy.  *)
(* None is the empty tuple and a populated optional is a non-empty tuple.  *)
(*                                                                         *)
(* Windows.  The look-back windows of the scripts (20/50/200 bars, RSI 14, *)
(* volume 20, pullback 10) are scaled down, keeping their order, so that   *)
(* every Series up to the history threshold can be enumerated.  The MACD   *)
(* spans and every threshold of the rules keep the values of the source.   *)
(***************************************************************************)
EXTENDS Integers, Sequences, FiniteSets, TLC

VARIABLES script, pc, raw, df, result, err, calls, vol_ratio_entry

vars == <<script, pc, raw, df, result, err, calls, vol_ratio_entry>>

(***************************************************************************)
(* Fixed-point numbers                                                     *)
(***************************************************************************)
FIX == 1000

NaN == -(2^30)

IsNaN(x) == x = NaN

\* a / b as a fixed-point number
Frac(a, b) == (a * FIX) \div b

\* x * (a / b), NaN-propagating
Scale(x, a, b) == IF IsNaN(x) THEN NaN ELSE (x * a) \div b

\* x * y for two fixed-point numbers, NaN-propagating
Mul(x, y) == IF IsNaN(x) \/ IsNaN(y) THEN NaN ELSE (x * y) \div FIX

Sub(x, y) == IF IsNaN(x) \/ IsNaN(y) THEN NaN ELSE x - y

\* comparisons of numpy floats: false as soon as one side is nan
Gt(x, y) == ~IsNaN(x) /\ ~IsNaN(y) /\ x > y
Ge(x, y) == ~IsNaN(x) /\ ~IsNaN(y) /\ x >= y
Lt(x, y) == ~IsNaN(x) /\ ~IsNaN(y) /\ x < y
Le(x, y) == ~IsNaN(x) /\ ~IsNaN(y) /\ x <= y

Add(x, y) == IF IsNaN(x) \/ IsNaN(y) THEN NaN ELSE x + y

\* x / y for two fixed-point numbers; a nan divisor or dividend gives nan
Div(x, y) == IF IsNaN(x) \/ IsNaN(y) THEN NaN ELSE (x * FIX) \div y

\* Python's max(a, b): b replaces a only when b > a
Max2(a, b) == IF Gt(b, a) THEN b ELSE a

(***************************************************************************)
(* Strategy parameters                                                     *)
(***************************************************************************)
RSI_PERIOD == 2
SMA_SHORT == 3
SMA_MID == 4
SMA_LONG == 5
VOL_SMA == 3
PULLBACK_NDAYS == 2

PULLBACK_PCT == Frac(7, 100)
VOL_MIN_RATIO_ENTRY == Frac(8, 10)
VOL_MIN_RATIO_CONFIRM == Frac(12, 10)
SL_BUFFER_PCT == Frac(15, 1000)

MACD_FAST == 12
MACD_SLOW == 26
MACD_SIGNAL == 9

HISTORY_MARGIN == 5

\* main.py: its SMA_LONG is the 50-bar window, its volume ratio the literal 1.2
main_SMA_LONG == SMA_MID
main_VOL_RATIO == Frac(12, 10)

(***************************************************************************)
(* Series helpers                                                          *)
(***************************************************************************)
Column(frame, col) == [i \in 1..Len(frame) |-> frame[i][col]]

RECURSIVE SumRange(_, _, _)
SumRange(s, lo, hi) == IF lo > hi THEN 0 ELSE s[hi] + SumRange(s, lo, hi - 1)

\* first index of series.iloc[-n:]
TailFrom(s, n) == IF Len(s) > n THEN Len(s) - n + 1 ELSE 1

\* series.iloc[-n:].max() and .min(): pandas skips nan
TailMax(s, n) ==
    LET vals == {s[j] : j \in TailFrom(s, n)..Len(s)} \ {NaN}
    IN  IF vals = {} THEN NaN ELSE CHOOSE m \in vals : \A v \in vals : v <= m

TailMin(s, n) ==
    LET vals == {s[j] : j \in TailFrom(s, n)..Len(s)} \ {NaN}
    IN  IF vals = {} THEN NaN ELSE CHOOSE m \in vals : \A v \in vals : m <= v

\* Series.rolling(n).mean(): nan until n values exist, nan if the window holds a nan
Rolling(s, n) ==
    [i \in 1..Len(s) |->
        IF i < n \/ (\E j \in (i - n + 1)..i : IsNaN(s[j]))
        THEN NaN
        ELSE SumRange(s, i - n + 1, i) \div n]

\* Series.diff()
Diff(s) == [i \in 1..Len(s) |-> IF i = 1 THEN NaN ELSE Sub(s[i], s[i - 1])]

\* Series.clip(lower=0) and -Series.clip(upper=0)
ClipLower0(s) ==
    [i \in 1..Len(s) |-> IF IsNaN(s[i]) THEN NaN ELSE IF s[i] < 0 THEN 0 ELSE s[i]]
NegClipUpper0(s) ==
    [i \in 1..Len(s) |-> IF IsNaN(s[i]) THEN NaN ELSE IF s[i] > 0 THEN 0 ELSE 0 - s[i]]

(***************************************************************************)
(* Series.ewm(alpha = a/b, adjust=False).mean(), pandas' recurrence: the   *)
(* first observation seeds the average, a nan carries the average forward  *)
(* and decays the weight of the old average.  A state is the pair          *)
(* <<weighted_avg, old_wt>>.                                               *)
(***************************************************************************)
EwmStep(st, cur, a, b) ==
    LET avg == st[1]
        new_wt == Frac(a, b)
        old_wt == (st[2] * (b - a)) \div b
    IN  IF IsNaN(avg) THEN <<cur, FIX>>
        ELSE IF IsNaN(cur) THEN <<avg, old_wt>>
        ELSE IF avg = cur THEN <<avg, FIX>>
        ELSE <<((old_wt * avg) + (new_wt * cur)) \div (old_wt + new_wt), FIX>>

\* the states after each of the first i values
RECURSIVE EwmStates(_, _, _, _)
EwmStates(s, i, a, b) ==
    IF i = 0 THEN <<>>
    ELSE IF i = 1 THEN <<(<<s[1], FIX>>)>>
    ELSE LET before == EwmStates(s, i - 1, a, b)
         IN  Append(before, EwmStep(before[i - 1], s[i], a, b))

Ewm(s, a, b) ==
    LET states == EwmStates(s, Len(s), a, b)
    IN  [i \in 1..Len(s) |-> states[i][1]]

\* ewm(span=n): alpha = 2 / (n + 1)
EwmSpan(s, n) == Ewm(s, 2, n + 1)

(***************************************************************************)
(* Indicator calculations                                                  *)
(***************************************************************************)
calc_sma(series, n) == Rolling(series, n)

\* avg_loss.replace(0, np.nan)
ReplaceZero(s) == [i \in 1..Len(s) |-> IF s[i] = 0 THEN NaN ELSE s[i]]

\* series.fillna(50)
FillNa50(s) == [i \in 1..Len(s) |-> IF IsNaN(s[i]) THEN 50 * FIX ELSE s[i]]

avg_gain_of(close, n) == Ewm(ClipLower0(Diff(close)), 1, n)
avg_loss_of(close, n) == Ewm(NegClipUpper0(Diff(close)), 1, n)

\* rsi before the fillna: 100 - 100 / (1 + rs), rs = avg_gain / avg_loss.replace(0, nan)
RawRsi(close, n) ==
    LET avg_gain == avg_gain_of(close, n)
        avg_loss == ReplaceZero(avg_loss_of(close, n))
    IN  [i \in 1..Len(close) |->
            LET rs == Div(avg_gain[i], avg_loss[i])
            IN  Sub(100 * FIX, Div(100 * FIX, Add(FIX, rs)))]

calc_rsi_wilder(close, n) == FillNa50(RawRsi(close, n))

calc_macd(close) ==
    LET ema_fast == EwmSpan(close, MACD_FAST)
        ema_slow == EwmSpan(close, MACD_SLOW)
        macd == [i \in 1..Len(close) |-> Sub(ema_fast[i], ema_slow[i])]
        macd_sig == EwmSpan(macd, MACD_SIGNAL)
        macd_hist == [i \in 1..Len(close) |-> Sub(macd[i], macd_sig[i])]
    IN  [macd |-> macd, macd_sig |-> macd_sig, macd_hist |-> macd_hist]

(***************************************************************************)
(* Data fetch and prepare                                                  *)
(***************************************************************************)
OHLCV == {"Open", "High", "Low", "Close", "Volume"}

RowIsComplete(row) == \A col \in OHLCV : ~IsNaN(row[col])

\* DataFrame.dropna(): keep the rows without a nan, in order
RECURSIVE DropNa(_)
DropNa(frame) ==
    IF frame = <<>> THEN <<>>
    ELSE IF RowIsComplete(Head(frame)) THEN <<Head(frame)>> \o DropNa(Tail(frame))
    ELSE DropNa(Tail(frame))

\* fetch_data without its dropna
fetch_data_KeepIncomplete(history) == history

\* PullBackIn.py fetch_data, after the empty-frame test
fetch_data(history) == DropNa(history)

\* main.py fetch_data, after the empty-frame test: the columns are selected, no row is dropped
main_fetch_data(history) == history

\* PullBackIn.py prepare_df
prepare_df(frame) ==
    LET close == Column(frame, "Close")
        sma_s == calc_sma(close, SMA_SHORT)
        sma_m == calc_sma(close, SMA_MID)
        sma_l == calc_sma(close, SMA_LONG)
        rsi == calc_rsi_wilder(close, RSI_PERIOD)
        m == calc_macd(close)
        vol_sma == Rolling(Column(frame, "Volume"), VOL_SMA)
    IN  [i \in 1..Len(frame) |->
            [Open |-> frame[i].Open, High |-> frame[i].High, Low |-> frame[i].Low,
             Close |-> frame[i].Close, Volume |-> frame[i].Volume,
             SMA_S |-> sma_s[i], SMA_M |-> sma_m[i], SMA_L |-> sma_l[i],
             RSI |-> rsi[i],
             MACD |-> m.macd[i], MACD_SIG |-> m.macd_sig[i], MACD_HIST |-> m.macd_hist[i],
             VOL_SMA |-> vol_sma[i]]]

\* main.py prepare_df: two moving averages only (SMA_SHORT and its SMA_LONG)
main_prepare_df(frame) ==
    LET close == Column(frame, "Close")
        sma_s == calc_sma(close, SMA_SHORT)
        sma_l == calc_sma(close, main_SMA_LONG)
        rsi == calc_rsi_wilder(close, RSI_PERIOD)
        m == calc_macd(close)
        vol_sma == Rolling(Column(frame, "Volume"), VOL_SMA)
    IN  [i \in 1..Len(frame) |->
            [Open |-> frame[i].Open, High |-> frame[i].High, Low |-> frame[i].Low,
             Close |-> frame[i].Close, Volume |-> frame[i].Volume,
             SMA_S |-> sma_s[i], SMA_L |-> sma_l[i],
             RSI |-> rsi[i],
             MACD |-> m.macd[i], MACD_SIG |-> m.macd_sig[i], MACD_HIST |-> m.macd_hist[i],
             VOL_SMA |-> vol_sma[i]]]

Max4(a, b, c, d) == Max2(Max2(Max2(a, b), c), d)

\* the history thresholds of the two main()
MinHistory == Max4(SMA_LONG, RSI_PERIOD, VOL_SMA, PULLBACK_NDAYS) + HISTORY_MARGIN
main_MinHistory == Max2(Max2(main_SMA_LONG, RSI_PERIOD), VOL_SMA) + HISTORY_MARGIN

(***************************************************************************)
(* Decision logic: Balanced preset (PullBackIn.py)                         *)
(***************************************************************************)
None == <<>>

\* Trend: SMA50 > SMA200 AND Close > SMA50, false while either average is nan
TrendOk(sma50, sma200, close) ==
    IF ~IsNaN(sma50) /\ ~IsNaN(sma200)
    THEN Gt(sma50, sma200) /\ Gt(close, sma50) ELSE FALSE

DropFromHigh(recent_high, low) ==
    IF Gt(recent_high, 0) THEN Div(Sub(recent_high, low), recent_high) ELSE 0

PullbackBySma(low, sma20) == ~IsNaN(sma20) /\ Le(low, sma20)

PullbackByPct(drop_from_high) == Ge(drop_from_high, PULLBACK_PCT)

\* the pullback rule without the reason of its else branch
PullbackReason_SilentElse(pullback_by_sma20, pullback_by_pct) ==
    IF pullback_by_sma20 THEN <<[rule |-> "pullback", mark |-> "sma"]>>
    ELSE IF pullback_by_pct THEN <<[rule |-> "pullback", mark |-> "pct"]>>
    ELSE <<>>

\* the reason appended by the if / elif / else of the pullback rule
PullbackReason(pullback_by_sma20, pullback_by_pct) ==
    IF pullback_by_sma20 THEN <<[rule |-> "pullback", mark |-> "sma"]>>
    ELSE IF pullback_by_pct THEN <<[rule |-> "pullback", mark |-> "pct"]>>
    ELSE <<[rule |-> "pullback", mark |-> "none"]>>

\* RSI between 30 and 50 and rising, or crossing 30 / 40 upward
RsiOk(rsi, rsi_prev) ==
    \/ (Le(30 * FIX, rsi) /\ Le(rsi, 50 * FIX) /\ Gt(rsi, rsi_prev))
    \/ (Lt(rsi_prev, 30 * FIX) /\ Ge(rsi, 30 * FIX))
    \/ (Lt(rsi_prev, 40 * FIX) /\ Ge(rsi, 40 * FIX))

\* MACD histogram rising and positive, or MACD above its signal
MacdOk(macd, macd_sig, macd_hist, prev_hist) ==
    \/ (Gt(macd_hist, prev_hist) /\ Gt(macd_hist, 0))
    \/ Gt(macd, macd_sig)

\* the volume gate with the comparison reversed
VolOk_Reversed(vol, ratio, vol20) == ~IsNaN(vol20) /\ Le(vol, Mul(ratio, vol20))

\* vol >= ratio * vol20, false while vol20 is nan
VolOk(vol, ratio, vol20) == ~IsNaN(vol20) /\ Ge(vol, Mul(ratio, vol20))

\* the final rule asking for both momentum confirmations
EntryRule_BothMomentum(trend_ok, pullback_by_sma20, pullback_by_pct, rsi_ok, macd_ok, vol_entry_ok) ==
    trend_ok /\ (pullback_by_sma20 \/ pullback_by_pct) /\ (rsi_ok /\ macd_ok) /\ vol_entry_ok

\* the final rule without the pullback requirement
EntryRule_NoPullback(trend_ok, pullback_by_sma20, pullback_by_pct, rsi_ok, macd_ok, vol_entry_ok) ==
    trend_ok /\ (rsi_ok \/ macd_ok) /\ vol_entry_ok

\* Final decision logic for Balanced
EntryRule(trend_ok, pullback_by_sma20, pullback_by_pct, rsi_ok, macd_ok, vol_entry_ok) ==
    trend_ok /\ (pullback_by_sma20 \/ pullback_by_pct) /\ (rsi_ok \/ macd_ok) /\ vol_entry_ok

\* the plan with the breakout price filled in every branch
TradePlan_BreakAlways(pullback_by_sma20, pullback_by_pct, sma20, close, high, recent_high, recent_low) ==
    IF pullback_by_sma20 /\ ~IsNaN(sma20)
    THEN [buy_zone |-> <<Max2(recent_low, Scale(sma20, 98, 100)), Max2(close, sma20)>>,
          buy_break |-> <<Scale(high, 1002, 1000)>>,
          stop_loss |-> <<Mul(recent_low, FIX - SL_BUFFER_PCT)>>]
    ELSE IF pullback_by_pct
    THEN [buy_zone |-> <<recent_low, Scale(Add(recent_high, recent_low), 1, 2)>>,
          buy_break |-> <<Scale(high, 1002, 1000)>>,
          stop_loss |-> <<Mul(recent_low, FIX - SL_BUFFER_PCT)>>]
    ELSE [buy_zone |-> None,
          buy_break |-> <<Scale(high, 1002, 1000)>>,
          stop_loss |-> <<Mul(recent_low, FIX - SL_BUFFER_PCT)>>]

\* the plan with the percentage branch tested before the SMA branch
TradePlan_PctFirst(pullback_by_sma20, pullback_by_pct, sma20, close, high, recent_high, recent_low) ==
    IF pullback_by_pct
    THEN [buy_zone |-> <<recent_low, Scale(Add(recent_high, recent_low), 1, 2)>>,
          buy_break |-> None,
          stop_loss |-> <<Mul(recent_low, FIX - SL_BUFFER_PCT)>>]
    ELSE IF pullback_by_sma20 /\ ~IsNaN(sma20)
    THEN [buy_zone |-> <<Max2(recent_low, Scale(sma20, 98, 100)), Max2(close, sma20)>>,
          buy_break |-> None,
          stop_loss |-> <<Mul(recent_low, FIX - SL_BUFFER_PCT)>>]
    ELSE [buy_zone |-> None,
          buy_break |-> <<Scale(high, 1002, 1000)>>,
          stop_loss |-> <<Mul(recent_low, FIX - SL_BUFFER_PCT)>>]

\* the plan with the stop placed under the recent high instead of the recent low
TradePlan_StopFromHigh(pullback_by_sma20, pullback_by_pct, sma20, close, high, recent_high, recent_low) ==
    IF pullback_by_sma20 /\ ~IsNaN(sma20)
    THEN [buy_zone |-> <<Max2(recent_low, Scale(sma20, 98, 100)), Max2(close, sma20)>>,
          buy_break |-> None,
          stop_loss |-> <<Mul(recent_high, FIX - SL_BUFFER_PCT)>>]
    ELSE IF pullback_by_pct
    THEN [buy_zone |-> <<recent_low, Scale(Add(recent_high, recent_low), 1, 2)>>,
          buy_break |-> None,
          stop_loss |-> <<Mul(recent_high, FIX - SL_BUFFER_PCT)>>]
    ELSE [buy_zone |-> None,
          buy_break |-> <<Scale(high, 1002, 1000)>>,
          stop_loss |-> <<Mul(recent_high, FIX - SL_BUFFER_PCT)>>]

\* Suggested buy zone and stop loss
TradePlan(pullback_by_sma20, pullback_by_pct, sma20, close, high, recent_high, recent_low) ==
    IF pullback_by_sma20 /\ ~IsNaN(sma20)
    THEN [buy_zone |-> <<Max2(recent_low, Scale(sma20, 98, 100)), Max2(close, sma20)>>,
          buy_break |-> None,
          stop_loss |-> <<Mul(recent_low, FIX - SL_BUFFER_PCT)>>]
    ELSE IF pullback_by_pct
    THEN [buy_zone |-> <<recent_low, Scale(Add(recent_high, recent_low), 1, 2)>>,
          buy_break |-> None,
          stop_loss |-> <<Mul(recent_low, FIX - SL_BUFFER_PCT)>>]
    ELSE [buy_zone |-> None,
          buy_break |-> <<Scale(high, 1002, 1000)>>,
          stop_loss |-> <<Mul(recent_low, FIX - SL_BUFFER_PCT)>>]

Mark(ok) == IF ok THEN "ok" ELSE "fail"

decision_pullback_balanced(frame, ratio_entry) ==
    LET latest == frame[Len(frame)]
        prev == frame[Len(frame) - 1]
        close == latest.Close
        low == latest.Low
        high == latest.High
        vol == latest.Volume
        sma20 == latest.SMA_S
        sma50 == latest.SMA_M
        sma200 == latest.SMA_L
        rsi == latest.RSI
        rsi_prev == prev.RSI
        macd == latest.MACD
        macd_sig == latest.MACD_SIG
        macd_hist == latest.MACD_HIST
        vol20 == latest.VOL_SMA
        recent_high == TailMax(Column(frame, "High"), PULLBACK_NDAYS)
        recent_low == TailMin(Column(frame, "Low"), PULLBACK_NDAYS)
        drop_from_high == DropFromHigh(recent_high, low)
        trend_ok == TrendOk(sma50, sma200, close)
        pullback_by_sma20 == PullbackBySma(low, sma20)
        pullback_by_pct == PullbackByPct(drop_from_high)
        rsi_ok == RsiOk(rsi, rsi_prev)
        prev_hist == prev.MACD_HIST
        macd_ok == MacdOk(macd, macd_sig, macd_hist, prev_hist)
        vol_entry_ok == VolOk(vol, ratio_entry, vol20)
        vol_confirm_ok == VolOk(vol, VOL_MIN_RATIO_CONFIRM, vol20)
        entry == EntryRule(trend_ok, pullback_by_sma20, pullback_by_pct,
                           rsi_ok, macd_ok, vol_entry_ok)
        reasons == <<[rule |-> "trend", mark |-> Mark(trend_ok)]>>
                   \o PullbackReason(pullback_by_sma20, pullback_by_pct)
                   \o <<[rule |-> "rsi", mark |-> Mark(rsi_ok)]>>
                   \o <<[rule |-> "macd", mark |-> Mark(macd_ok)]>>
                   \o <<[rule |-> "volume", mark |-> Mark(vol_entry_ok)]>>
    IN  [entry |-> entry,
         reasons |-> reasons,
         flags |-> [trend_ok |-> trend_ok, pullback_by_sma20 |-> pullback_by_sma20,
                    pullback_by_pct |-> pullback_by_pct, rsi_ok |-> rsi_ok,
                    macd_ok |-> macd_ok, vol_entry_ok |-> vol_entry_ok,
                    vol_confirm_ok |-> vol_confirm_ok, entry |-> entry],
         values |-> [close |-> close, low |-> low, high |-> high, volume |-> vol,
                     SMA20 |-> sma20, SMA50 |-> sma50, SMA200 |-> sma200,
                     RSI |-> rsi, RSI_prev |-> rsi_prev,
                     MACD |-> macd, MACD_SIG |-> macd_sig, MACD_HIST |-> macd_hist,
                     prev_hist |-> prev_hist, VOL20 |-> vol20,
                     recent_high |-> recent_high, recent_low |-> recent_low,
                     drop_from_high |-> drop_from_high],
         plan |-> TradePlan(pullback_by_sma20, pullback_by_pct, sma20, close, high,
                            recent_high, recent_low)]

(***************************************************************************)
(* Decision logic of main.py                                               *)
(***************************************************************************)
\* B) the RSI rule appends one of three reasons
main_RsiReason(rsi, rsi_prev) ==
    IF (Lt(rsi_prev, 40 * FIX) /\ Ge(rsi, 40 * FIX)) \/ (Lt(rsi_prev, 30 * FIX) /\ Ge(rsi, 30 * FIX))
    THEN <<[rule |-> "rsi", mark |-> "cross"]>>
    ELSE IF Gt(rsi, rsi_prev) /\ Gt(rsi, 45 * FIX)
    THEN <<[rule |-> "rsi", mark |-> "rising"]>>
    ELSE <<[rule |-> "rsi", mark |-> "fail"]>>

decision_logic(frame) ==
    LET latest == frame[Len(frame)]
        prev == frame[Len(frame) - 1]
        close == latest.Close
        vol == latest.Volume
        sma20 == latest.SMA_S
        sma50 == latest.SMA_L
        rsi == latest.RSI
        rsi_prev == prev.RSI
        macd == latest.MACD
        macd_sig == latest.MACD_SIG
        macd_hist == latest.MACD_HIST
        vol20 == latest.VOL_SMA
        trend_ok == Gt(close, sma20) /\ Gt(sma20, sma50)
        rsi_reason == main_RsiReason(rsi, rsi_prev)
        rsi_signal == rsi_reason[1].mark # "fail"
        macd_signal == \/ Gt(macd_hist, 0)
                       \/ (Lt(prev.MACD, prev.MACD_SIG) /\ Gt(macd, macd_sig))
        vol_ok == Ge(vol, Mul(main_VOL_RATIO, vol20))
        entry == trend_ok /\ (rsi_signal \/ macd_signal) /\ vol_ok
        reasons == <<[rule |-> "trend", mark |-> Mark(trend_ok)]>>
                   \o rsi_reason
                   \o <<[rule |-> "macd", mark |-> Mark(macd_signal)]>>
                   \o <<[rule |-> "volume", mark |-> Mark(vol_ok)]>>
    IN  [entry |-> entry,
         reasons |-> reasons,
         values |-> [close |-> close, volume |-> vol, SMA20 |-> sma20, SMA50 |-> sma50,
                     RSI |-> rsi, RSI_prev |-> rsi_prev,
                     MACD |-> macd, MACD_SIG |-> macd_sig, MACD_HIST |-> macd_hist,
                     VOL20 |-> vol20]]

(***************************************************************************)
(* Inputs                                                                  *)
(***************************************************************************)
TailLen == 4
MaxBars == 5

\* a price or a volume as a fixed-point number
P(x) == x * FIX

Bar(o, h, l, c, v) ==
    [Open |-> P(o), High |-> P(h), Low |-> P(l), Close |-> P(c), Volume |-> P(v)]

\* a row of the provider whose prices are missing (a day without a quote)
IncompleteRow == [Open |-> NaN, High |-> NaN, Low |-> NaN, Close |-> NaN, Volume |-> P(0)]

QuietBar == Bar(100, 101, 99, 100, 10)

\* the latest rows the provider returns: quiet, strong, weak on light volume, or without quote
ProviderRows == {QuietBar, Bar(104, 111, 103, 110, 10), Bar(108, 109, 101, 106, 5),
                 IncompleteRow}

\* an older history of h quiet bars
QuietHistory(h) == [i \in 1..h |-> QuietBar]

\* bars handed to prepare_df and the decision functions directly
\* bars handed to prepare_df and the decision functions directly: the three above,
\* a quiet bar with a spike high, and a bar closing high on a narrow range
BarKinds == {QuietBar, Bar(104, 111, 103, 110, 10), Bar(108, 109, 101, 106, 5),
             Bar(100, 125, 99, 100, 10), Bar(113, 115, 113, 114, 10)}

\* volume entry ratios a caller may configure
Ratios == {Frac(5, 10), VOL_MIN_RATIO_ENTRY, Frac(12, 10)}

Scripts == {"PullBackIn", "main"}

SeriesOver(rows, lo, hi) == UNION {[1..n -> rows] : n \in lo..hi}

(***************************************************************************)
(* main() of both scripts                                                  *)
(***************************************************************************)
Init ==
    /\ script \in Scripts
    /\ \E h \in 0..MinHistory, tail \in SeriesOver(ProviderRows, 0, TailLen) :
            raw = QuietHistory(h) \o tail
    /\ pc = "start"
    /\ df = <<>>
    /\ result = None
    /\ err = "none"
    /\ calls = <<>>
    /\ vol_ratio_entry = VOL_MIN_RATIO_ENTRY

\* df = fetch_data(ticker, days): RuntimeError on an empty history
FetchData ==
    /\ pc = "start"
    /\ calls' = Append(calls, "fetch_data")
    /\ IF raw = <<>>
       THEN /\ pc' = "error"
            /\ err' = "fetch_failed"
            /\ df' = df
       ELSE /\ pc' = "fetched"
            /\ err' = err
            /\ df' = IF script = "PullBackIn" THEN fetch_data(raw) ELSE main_fetch_data(raw)
    /\ UNCHANGED <<script, raw, result, vol_ratio_entry>>

\* df = prepare_df(df)
PrepareDf ==
    /\ pc = "fetched"
    /\ calls' = Append(calls, "prepare_df")
    /\ df' = IF script = "PullBackIn" THEN prepare_df(df) ELSE main_prepare_df(df)
    /\ pc' = "prepared"
    /\ UNCHANGED <<script, raw, result, err, vol_ratio_entry>>

\* if df.shape[0] < max(...) + 5: raise RuntimeError
CheckHistory ==
    /\ pc = "prepared"
    /\ calls' = Append(calls, "check_history")
    /\ IF Len(df) < (IF script = "PullBackIn" THEN MinHistory ELSE main_MinHistory)
       THEN pc' = "error" /\ err' = "insufficient_history"
       ELSE pc' = "checked" /\ err' = err
    /\ UNCHANGED <<script, raw, df, result, vol_ratio_entry>>

\* result = decision_pullback_balanced(df) / res = decision_logic(df)
DecideAt(at) ==
    /\ pc = at
    /\ calls' = Append(calls, "decision")
    /\ IF Len(df) < 2
       THEN pc' = "error" /\ err' = "index_error" /\ result' = result
       ELSE /\ pc' = "done"
            /\ err' = err
            /\ result' = IF script = "PullBackIn"
                          THEN decision_pullback_balanced(df, vol_ratio_entry)
                          ELSE decision_logic(df)
    /\ UNCHANGED <<script, raw, df, vol_ratio_entry>>

Decide == DecideAt("checked")

Next == FetchData \/ PrepareDf \/ CheckHistory \/ Decide

Spec == Init /\ [][Next]_vars

(***************************************************************************)
(* The indicator and decision functions applied to a frame directly        *)
(***************************************************************************)
InitDecision ==
    /\ script \in Scripts
    /\ raw = <<>>
    /\ df \in SeriesOver(BarKinds, 2, MaxBars)
    /\ pc = "fetched"
    /\ result = None
    /\ err = "none"
    /\ calls = <<>>
    /\ vol_ratio_entry \in (IF script = "PullBackIn" THEN Ratios ELSE {VOL_MIN_RATIO_ENTRY})

DecideDirect == DecideAt("prepared")

NextDecision == PrepareDf \/ DecideDirect

SpecDecision == InitDecision /\ [][NextDecision]_vars

(***************************************************************************)
(* Properties                                                              *)
(***************************************************************************)
Balanced == pc = "done" /\ script = "PullBackIn"

Rules(reasons) == [i \in 1..Len(reasons) |-> reasons[i].rule]

\* the max high and min low over the last PULLBACK_NDAYS rows, the latest included
IsRecentHigh(x) ==
    /\ \A j \in TailFrom(df, PULLBACK_NDAYS)..Len(df) : df[j].High <= x
    /\ \E j \in TailFrom(df, PULLBACK_NDAYS)..Len(df) : df[j].High = x
IsRecentLow(x) ==
    /\ \A j \in TailFrom(df, PULLBACK_NDAYS)..Len(df) : df[j].Low >= x
    /\ \E j \in TailFrom(df, PULLBACK_NDAYS)..Len(df) : df[j].Low = x

\* C1: the entry verdict of decision_pullback_balanced is true exactly when
\* trend_ok and (pullback_by_sma20 or pullback_by_pct) and (rsi_ok or macd_ok) and
\* vol_entry_ok; it is false whenever trend_ok or vol_entry_ok is false, and
\* vol_confirm_ok does not enter it.
C1_EntryIsConjunction ==
    Balanced =>
        LET f == result.flags
        IN  /\ result.entry <=> (/\ f.trend_ok
                                 /\ (f.pullback_by_sma20 \/ f.pullback_by_pct)
                                 /\ (f.rsi_ok \/ f.macd_ok)
                                 /\ f.vol_entry_ok)
            /\ (~f.trend_ok => ~result.entry)
            /\ (~f.vol_entry_ok => ~result.entry)
            /\ f.entry = result.entry

\* an accepted entry carried by one momentum confirmation only, without volume confirmation
C1_Witness ==
    /\ Balanced
    /\ result.entry
    /\ ~result.flags.rsi_ok
    /\ ~result.flags.vol_confirm_ok

\* C2: when the history is too short, the error is raised before prepare_df has
\* computed any indicator, and neither the decision nor the plan is computed.
C2_CheckBeforeIndicators ==
    err = "insufficient_history" =>
        /\ \A i \in 1..Len(calls) : calls[i] # "prepare_df"
        /\ \A i \in 1..Len(calls) : calls[i] # "decision"
        /\ result = None

\* C3: at every bar where the smoothed average loss is exactly zero (a delta was
\* observed and none so far is negative), the RSI column equals 100.
C3_ZeroLossRsiIs100 ==
    pc = "prepared" =>
        \A i \in 1..Len(df) :
            avg_loss_of(Column(df, "Close"), RSI_PERIOD)[i] = 0 => df[i].RSI = 100 * FIX

\* C4: the plan has exactly one of buy_zone and buy_break populated, and stop_loss
\* is always populated.
C4_OneEntryLevel ==
    Balanced =>
        /\ (result.plan.buy_zone = None) # (result.plan.buy_break = None)
        /\ result.plan.stop_loss # None

\* the breakout fallback: no pullback fired, buy_break alone is populated
C4_Witness ==
    /\ Balanced
    /\ result.plan.buy_zone = None
    /\ result.plan.buy_break # None
    /\ result.plan.stop_loss # None

C6_OneReasonPerRule ==
    pc = "done" =>
        IF script = "PullBackIn"
        THEN /\ Rules(result.reasons) = <<"trend", "pullback", "rsi", "macd", "volume">>
             /\ result.reasons[2].mark =
                    (IF result.flags.pullback_by_sma20 THEN "sma"
                     ELSE IF result.flags.pullback_by_pct THEN "pct" ELSE "none")
        ELSE Rules(result.reasons) = <<"trend", "rsi", "macd", "volume">>

\* every rule of the balanced preset failed and the pullback reason says neither fired
C6_Witness ==
    /\ Balanced
    /\ ~result.flags.trend_ok
    /\ ~result.flags.rsi_ok
    /\ ~result.flags.macd_ok
    /\ ~result.flags.vol_entry_ok
    /\ Len(result.reasons) = 5
    /\ result.reasons[2].mark = "none"

\* C7: an entry accepted with volume entry ratio r is accepted with every smaller
\* ratio, all other inputs unchanged.
C7_VolumeGateMonotone ==
    (Balanced /\ result.entry) =>
        \A r2 \in Ratios :
            r2 < vol_ratio_entry => decision_pullback_balanced(df, r2).entry

\* an entry accepted at the strictest ratio, on a volume above its average
C7_Witness ==
    /\ Balanced
    /\ result.entry
    /\ \A r \in Ratios : r <= vol_ratio_entry
    /\ \E r2 \in Ratios : r2 < vol_ratio_entry
    /\ result.values.volume > result.values.VOL20

\* C8: once the history check of PullBackIn.py has passed, every number the
\* decision reads for the latest and the prior bar is defined.
C8_NoUndefinedValue ==
    (script = "PullBackIn" /\ pc \in {"checked", "done"}) =>
        LET latest == df[Len(df)]
            prev == df[Len(df) - 1]
        IN  /\ \A col \in {"Close", "Low", "High", "Volume", "SMA_S", "SMA_M", "SMA_L",
                             "RSI", "MACD", "MACD_SIG", "MACD_HIST", "VOL_SMA"} :
                   ~IsNaN(latest[col])
            /\ ~IsNaN(prev.RSI)
            /\ ~IsNaN(prev.MACD_HIST)
            /\ pc = "done" =>
                  \A k \in DOMAIN result.values : ~IsNaN(result.values[k])

\* a decision reached although the provider returned a row without quote, on a
\* history whose RSI met the zero-loss division
C8_Witness ==
    /\ Balanced
    /\ \E i \in 1..Len(raw) : ~RowIsComplete(raw[i])
    /\ \E i \in 2..Len(df) : IsNaN(RawRsi(Column(df, "Close"), RSI_PERIOD)[i])

\* C9: an accepted entry comes with a buy_zone and without a buy_break.
C9_EntryHasBuyZone ==
    (Balanced /\ result.entry) =>
        /\ result.plan.buy_zone # None
        /\ result.plan.buy_break = None

\* an accepted entry whose zone comes from the percentage branch
C9_Witness ==
    /\ Balanced
    /\ result.entry
    /\ ~result.flags.pullback_by_sma20
    /\ result.plan.buy_zone # None

\* positive prices with low <= close <= high on every bar
WellFormed(frame) ==
    \A i \in 1..Len(frame) :
        /\ frame[i].Low > 0
        /\ frame[i].Low <= frame[i].Close
        /\ frame[i].Close <= frame[i].High

\* C10: on well-formed bars the plan is price-ordered: stop_loss is strictly below
\* the entry level (the lower bound of buy_zone, or buy_break), and the lower bound
\* of buy_zone does not exceed its upper bound.
C10_PlanIsOrdered ==
    (Balanced /\ WellFormed(df) /\ 0 < SL_BUFFER_PCT /\ SL_BUFFER_PCT < FIX) =>
        LET p == result.plan
        IN  /\ p.buy_zone # None =>
                  /\ p.stop_loss[1] < p.buy_zone[1]
                  /\ p.buy_zone[1] <= p.buy_zone[2]
            /\ p.buy_break # None => p.stop_loss[1] < p.buy_break[1]

\* a percentage-branch zone under a spike high, far above the swing low
C10_Witness ==
    /\ Balanced
    /\ WellFormed(df)
    /\ ~result.flags.pullback_by_sma20
    /\ result.flags.pullback_by_pct
    /\ Mul(result.values.recent_high, FIX - SL_BUFFER_PCT) > result.values.recent_low

====
